---- MODULE Spec2Model ----
(***************************************************************************)
(* StealthScribe AI Engine (src/main.py): the two request handlers         *)
(* analyze_corpus and generate_with_twin over the in-memory store          *)
(* FAKE_USER_DATABASE.                                                     *)
(*                                                                         *)
(* A Python str is a sequence of one-character strings.  A float that the  *)
(* code rounds to 2 decimal places is held as its integer number of        *)
(* hundredths (50.0 is 5000, 0.98 is 98); an unrounded quotient is the     *)
(* pair <<numerator, denominator>>.                                        *)
(***************************************************************************)
EXTENDS Integers, Sequences, FiniteSets, TLC

VARIABLES
    FAKE_USER_DATABASE, \* user_id -> AuthorialSignatureModel (a function on the stored ids)
    request,            \* the request being served / last served
    response,           \* the response to the last served request
    system_prompt,      \* the fields interpolated into the system prompt by the last request
    analyzed,           \* history: the user ids for which analyze_corpus returned 200
    rejected            \* history: the user ids for which analyze_corpus raised 400

vars == <<FAKE_USER_DATABASE, request, response, system_prompt, analyzed, rejected>>

\* Before the first request there is no request and no response; a handler
\* that returns without rendering the system prompt leaves none.
NoRequest == [op |-> "none"]
NoResponse == [status_code |-> 0]
NoPrompt == [tone |-> "none"]

\* The user ids that send requests.
Users == {"u1", "u2"}

---------------------------------------------------------------------------
(* str primitives *)

\* str.split() and str.strip() without arguments cut at whitespace.
Whitespace == {" ", "\t", "\n"}

IsSpace(c) == c \in Whitespace

AsciiUpper ==
    <<"A","B","C","D","E","F","G","H","I","J","K","L","M",
      "N","O","P","Q","R","S","T","U","V","W","X","Y","Z">>

AsciiLower ==
    <<"a","b","c","d","e","f","g","h","i","j","k","l","m",
      "n","o","p","q","r","s","t","u","v","w","x","y","z">>

LowerChar(c) ==
    IF \E i \in 1..26 : AsciiUpper[i] = c
    THEN AsciiLower[CHOOSE i \in 1..26 : AsciiUpper[i] = c]
    ELSE c

\* A mutant of Lower: the text is searched as written.
LowerIdentity(t) == t

\* str.lower()
Lower(t) == [i \in 1..Len(t) |-> LowerChar(t[i])] \o <<>>

\* The first position >= i of t holding a non-whitespace character, 0 if none.
NextTokenStart(t, i) ==
    IF \E s \in i..Len(t) : ~IsSpace(t[s])
    THEN CHOOSE s \in i..Len(t) : ~IsSpace(t[s]) /\ \A k \in i..(s-1) : IsSpace(t[k])
    ELSE 0

\* The last position of the whitespace-free run that starts at s.
TokenEnd(t, s) ==
    CHOOSE q \in s..Len(t) :
        (q = Len(t) \/ IsSpace(t[q+1])) /\ \A k \in s..q : ~IsSpace(t[k])

RECURSIVE SplitFrom(_, _)
SplitFrom(t, i) ==
    LET s == NextTokenStart(t, i)
    IN  IF s = 0 THEN <<>>
        ELSE LET e == TokenEnd(t, s)
             IN  <<SubSeq(t, s, e)>> \o SplitFrom(t, e + 1)

\* str.split(): the maximal whitespace-free runs, in order; no empty strings.
Split(t) == SplitFrom(t, 1)

\* str.split('.') cuts at every '.', so a text with k dots has k+1 fragments,
\* empty ones included.  A fragment is named by the position it starts at.
FragmentStarts(t) == {p \in 1..(Len(t) + 1) : p = 1 \/ t[p-1] = "."}

FragmentEnd(t, p) ==
    CHOOSE q \in (p-1)..Len(t) :
        (q = Len(t) \/ t[q+1] = ".") /\ \A k \in p..q : t[k] # "."

Fragment(t, p) == SubSeq(t, p, FragmentEnd(t, p))

\* str.strip()
Strip(s) ==
    IF \A k \in 1..Len(s) : IsSpace(s[k]) THEN <<>>
    ELSE LET a == CHOOSE i \in 1..Len(s) :
                      ~IsSpace(s[i]) /\ \A k \in 1..(i-1) : IsSpace(s[k])
             b == CHOOSE j \in 1..Len(s) :
                      ~IsSpace(s[j]) /\ \A k \in (j+1)..Len(s) : IsSpace(s[k])
         IN  SubSeq(s, a, b)

\* p in s, for strings
Contains(s, p) == \E i \in 0..(Len(s) - Len(p)) : SubSeq(s, i + 1, i + Len(p)) = p

\* set(words)
ToSet(s) == {s[i] : i \in 1..Len(s)}

---------------------------------------------------------------------------
(* round(x, 2) of the float x = n / d *)

RECURSIVE Pow2Mod200(_)
Pow2Mod200(s) == IF s = 0 THEN 1 ELSE (2 * Pow2Mod200(s - 1)) % 200

\* The j with 200 <= m * 2^j < 400: 52 + j is the number of binary places the
\* 53-bit double nearest to m/200 keeps after the point.
BinaryShift(m) ==
    CHOOSE j \in -14..8 :
        IF j >= 0 THEN 200 <= m * 2^j /\ m * 2^j < 400
                  ELSE 200 * 2^(-j) <= m /\ m < 400 * 2^(-j)

\* A mutant of Round2: the quotient is cut, not rounded.
Round2Truncating(x) == (100 * x[1]) \div x[2]

\* round(n / d, 2) in hundredths.  Python rounds the double nearest to n/d
\* correctly to 2 places, halves to even.  n/d lies exactly between two
\* hundredths when 200n = m*d with m odd; the double is that value exactly
\* when 25 divides m (m/200 is then a multiple of 1/8), and otherwise lies
\* above or below it according to the binary digits the double drops.
Round2(x) ==
    LET n == x[1]
        d == x[2]
        q == (100 * n) \div d
        r == (100 * n) % d
        m == 2 * q + 1
        dropped == ((m % 200) * Pow2Mod200(52 + BinaryShift(m))) % 200
    IN  IF 2 * r < d THEN q
        ELSE IF 2 * r > d THEN q + 1
        ELSE IF m % 25 = 0 THEN (IF q % 2 = 0 THEN q ELSE q + 1)
        ELSE IF dropped > 100 THEN q + 1 ELSE q

---------------------------------------------------------------------------
(* analyze_corpus *)

MinWords == 50

\* A mutant of TooShort: texts of exactly MinWords words are refused too.
TooShortInclusive(text) == Len(Split(text)) <= MinWords

\* len(text.split()) < 50
TooShort(text) == Len(Split(text)) < MinWords

\* The marker phrases, as strings.
InAddition == <<"i","n"," ","a","d","d","i","t","i","o","n",",">>
However == <<"h","o","w","e","v","e","r",",">>
ForExample == <<"f","o","r"," ","e","x","a","m","p","l","e",",">>
ItIsClearThat == <<"i","t"," ","i","s"," ","c","l","e","a","r"," ","t","h","a","t">>
OnTheOtherHand == <<"o","n"," ","t","h","e"," ","o","t","h","e","r"," ","h","a","n","d",",">>

\* A mutant of known_phrases: the list in the order the prose gives it.
known_phrases_however_first ==
    <<However, InAddition, ForExample, ItIsClearThat, OnTheOtherHand>>

known_phrases == <<InAddition, However, ForExample, ItIsClearThat, OnTheOtherHand>>

\* [s for s in text.split('.') if len(s.strip()) > 0], each kept fragment
\* named by the position it starts at; len(sentences) is the number of them.
Sentences(text) ==
    {p \in FragmentStarts(text) : Len(Strip(Fragment(text, p))) > 0}

\* A mutant of AvgLen: empty and blank fragments are counted as sentences.
AvgLenAllFragments(text) ==
    <<Len(Split(text)), Cardinality(FragmentStarts(text))>>

\* total_words / len(sentences) if sentences else 15.0
AvgLen(text) ==
    LET sentences == Sentences(text)
        total_words == Len(Split(text))
    IN  IF sentences # {} THEN <<total_words, Cardinality(sentences)>> ELSE <<15, 1>>

\* A mutant of Diversity: the words are counted as written, not lower-cased.
DiversityCaseSensitive(text) ==
    LET words == Split(text)
    IN  IF words # <<>> THEN <<Cardinality(ToSet(words)), Len(words)>> ELSE <<1, 2>>

\* len(unique_words) / len(words) if words else 0.5
Diversity(text) ==
    LET words == Split(Lower(text))
        unique_words == ToSet(words)
    IN  IF words # <<>> THEN <<Cardinality(unique_words), Len(words)>> ELSE <<1, 2>>

\* [p for p in known_phrases if p in text.lower()]
FoundPhrases(text) ==
    LET lowered == Lower(text)
    IN  SelectSeq(known_phrases, LAMBDA p : Contains(lowered, p))

\* The AuthorialSignatureModel built from the text.
ASM(text) ==
    [avg_sentence_length |-> Round2(AvgLen(text)),
     lexical_diversity   |-> Round2(Diversity(text)),
     common_phrases      |-> FoundPhrases(text)]

\* A mutant of Store: the model is kept under every user id, not only the
\* request's.
StoreForEveryUser(db, user_id, asm) == [k \in Users |-> asm]

\* A mutant of Store: the assignment replaces the whole store.
StoreOnly(db, user_id, asm) == [k \in {user_id} |-> asm]

\* FAKE_USER_DATABASE[request.user_id] = asm
Store(db, user_id, asm) ==
    [k \in (DOMAIN db) \cup {user_id} |-> IF k = user_id THEN asm ELSE db[k]]

analyze_corpus(user_id, corpus_text) ==
    /\ request' = [op |-> "analyze", user_id |-> user_id, corpus_text |-> corpus_text]
    /\ IF TooShort(corpus_text)
       THEN /\ response' = [status_code |-> 400,
                            detail |-> "Corpus text is too short. Please provide at least 50 words."]
            /\ rejected' = rejected \cup {user_id}
            /\ system_prompt' = NoPrompt
            /\ UNCHANGED <<FAKE_USER_DATABASE, analyzed>>
       ELSE LET asm == ASM(corpus_text)
            IN  /\ FAKE_USER_DATABASE' = Store(FAKE_USER_DATABASE, user_id, asm)
                /\ response' = [status_code |-> 200, body |-> asm]
                /\ analyzed' = analyzed \cup {user_id}
                /\ system_prompt' = NoPrompt
                /\ UNCHANGED rejected

---------------------------------------------------------------------------
(* generate_with_twin *)

\* request.user_id in FAKE_USER_DATABASE
HasModel(db, user_id) == user_id \in DOMAIN db

tone_map ==
    (0 :> "extremely formal, academic, and rigid") @@
    (1 :> "formal and academic") @@
    (2 :> "professional and clear") @@
    (3 :> "engaging and professional") @@
    (4 :> "conversational and personal") @@
    (5 :> "highly informal, personal, and casual")

\* A mutant of TonePhrase: an unknown level is clamped to the nearest entry.
TonePhraseClamped(tone_level) ==
    IF tone_level < 0 THEN tone_map[0]
    ELSE IF tone_level > 5 THEN tone_map[5]
    ELSE tone_map[tone_level]

\* tone_map.get(request.tone_level, "professional")
TonePhrase(tone_level) ==
    IF tone_level \in DOMAIN tone_map THEN tone_map[tone_level] ELSE "professional"

\* ', '.join(phrases)
RECURSIVE JoinPhrases(_)
JoinPhrases(phrases) ==
    IF phrases = <<>> THEN <<>>
    ELSE IF Len(phrases) = 1 THEN phrases[1]
    ELSE phrases[1] \o <<",", " ">> \o JoinPhrases(Tail(phrases))

ScoreMin == 85
ScoreMax == 98
UndetectableFrom == 90

\* A mutant of AegisScores: the simulated score starts five points lower.
AegisScoresWide == (ScoreMin - 5)..ScoreMax

\* The values random.randint(85, 98) can return.
AegisScores == ScoreMin..ScoreMax

\* "Undetectable" if aegis_score >= 90 else "Likely Human"
AegisLabel(aegis_score) ==
    IF aegis_score >= UndetectableFrom THEN "Undetectable" ELSE "Likely Human"

\* The try block only formats strings and draws the score, so its except
\* branch (HTTP 500) is never entered.
generate_with_twin(user_id, prompt, tone_level) ==
    /\ request' = [op |-> "generate", user_id |-> user_id, prompt |-> prompt,
                   tone_level |-> tone_level]
    /\ IF ~HasModel(FAKE_USER_DATABASE, user_id)
       THEN /\ response' = [status_code |-> 404,
                            detail |-> "User model not found. Please run analysis first."]
            /\ system_prompt' = NoPrompt
            /\ UNCHANGED <<FAKE_USER_DATABASE, analyzed, rejected>>
       ELSE LET asm == FAKE_USER_DATABASE[user_id]
            IN  /\ system_prompt' =
                       [avg_sentence_length |-> asm.avg_sentence_length,
                        lexical_diversity   |-> asm.lexical_diversity,
                        tone                |-> TonePhrase(tone_level),
                        common_phrases      |-> JoinPhrases(asm.common_phrases)]
                /\ \E aegis_score \in AegisScores :
                       response' =
                           [status_code |-> 200,
                            generated_text |->
                                [tone_level |-> tone_level,
                                 avg_sentence_length |-> asm.avg_sentence_length],
                            aegis_rating |->
                                [score |-> aegis_score, label |-> AegisLabel(aegis_score)]]
                /\ UNCHANGED <<FAKE_USER_DATABASE, analyzed, rejected>>

---------------------------------------------------------------------------
(* Requests: the user ids, prompts, tone levels and corpus texts served *)

Prompts == {"Write a short note."}

\* Tone levels reach ToneSlack below 0 and above 5, the ends of the UI slider.
ToneSlack == 2

ToneLevels == (0 - ToneSlack)..(5 + ToneSlack)

\* Word counts reach from one below MinWords to ExtraWords above it.
ExtraWords == 6

WordCounts == {0, 1} \cup ((MinWords - 1)..(MinWords + ExtraWords))

\* 676 pairwise distinct two-letter words, numbered from 0.
Word(i) == <<AsciiLower[(i \div 26) + 1], AsciiLower[(i % 26) + 1]>>

UpperChar(c) ==
    IF \E i \in 1..26 : AsciiLower[i] = c
    THEN AsciiUpper[CHOOSE i \in 1..26 : AsciiLower[i] = c]
    ELSE c

Upper(t) == [i \in 1..Len(t) |-> UpperChar(t[i])] \o <<>>

RECURSIVE Join(_, _)
Join(tokens, sep) ==
    IF tokens = <<>> THEN <<>>
    ELSE IF Len(tokens) = 1 THEN tokens[1]
    ELSE tokens[1] \o sep \o Join(Tail(tokens), sep)

Reverse(s) == [i \in 1..Len(s) |-> s[Len(s) + 1 - i]] \o <<>>

\* n words cycling through the first k of the distinct words.
Words(n, k) == [i \in 1..n |-> Word((i - 1) % k)] \o <<>>

\* The same, every second word in upper case.
MixedCaseWords(n, k) ==
    [i \in 1..n |-> IF i % 2 = 0 THEN Upper(Word((i - 1) % k)) ELSE Word((i - 1) % k)] \o <<>>

Separators == {<<" ">>, <<"\n", "\t">>}

Tails == {<<>>, <<".">>, <<" ", ".">>}

DistinctCounts == {1, 7, MinWords + ExtraWords}

\* Words only: every word count, few or many distinct words, either case.
PlainCorpora ==
    {Join(ws, sep) \o tail :
        ws \in {Words(n, k) : n \in WordCounts, k \in DistinctCounts}
               \cup {MixedCaseWords(n, 7) : n \in WordCounts},
        sep \in Separators, tail \in Tails}

\* The marker phrases in the order the prose lists them.
ListedPhrases == <<However, InAddition, ForExample, ItIsClearThat, OnTheOtherHand>>

PhraseChoice(S) == SelectSeq(<<1, 2, 3, 4, 5>>, LAMBDA i : i \in S)

Phrases(S) == [i \in 1..Len(PhraseChoice(S)) |-> ListedPhrases[PhraseChoice(S)[i]]] \o <<>>

Base == Join(Words(MinWords, MinWords), <<" ">>)

\* MinWords distinct words followed by any choice of marker phrases, in the
\* listed or the opposite order, in lower or upper case.
PhraseCorpora ==
    {Base \o <<" ">> \o Join(ps, <<" ">>) \o <<".">> :
        ps \in UNION {{Phrases(S), Reverse(Phrases(S)),
                       [i \in 1..Len(Phrases(S)) |-> Upper(Phrases(S)[i])] \o <<>>} :
                      S \in SUBSET (1..5)}}

\* Near misses of a marker phrase, and a phrase inside a longer word.
NearMissCorpora ==
    {Base \o <<" ">> \o x :
        x \in {<<"h","o","w","e","v","e","r">>,
               <<"i","t"," ","i","s"," ","c","l","e","a","r"," "," ","t","h","a","t">>,
               <<"i","n","\n","a","d","d","i","t","i","o","n",",">>,
               <<"x">> \o However \o <<"y">>,
               <<"f","o","r"," ","E","x","a","m","p","l","e",",">>}}

\* The first word of a 50-word text replaced by "however,", or by an
\* upper-case copy of another word, with one '.' at the end.
OneSentenceCorpora ==
    {Join(<<w>> \o Tail(Words(MinWords, MinWords)), sep) \o tail :
        w \in {However, Upper(Word(1)), Word(0)},
        sep \in Separators, tail \in {<<".">>, <<" ", ".">>, <<".", "\n">>}}

\* "a.a. ... .a": s fragments in one word.
Dotted(s) == [i \in 1..(2 * s - 1) |-> IF i % 2 = 1 THEN "a" ELSE "."] \o <<>>

\* A text of w words and s sentences: the first word holds s - 1 dots.
WithSentences(w, s) == Dotted(s) \o <<" ">> \o Join(Words(w - 1, w), <<" ">>)

\* w words made of dots only: no fragment holds anything but whitespace.
DotsOnly(w, dots) == Join([i \in 1..w |-> dots] \o <<>>, <<" ">>)

SentenceCounts == {1, 2, 3, 8, 16, 40}

\* Few sentences, none, and about 200 sentences per word, where the
\* average rounds to 0.00 or 0.01.
SentenceCorpora ==
    {WithSentences(w, s) : w \in {MinWords, MinWords + 1}, s \in SentenceCounts}
    \cup {WithSentences(w, 200 * w + d) : w \in {MinWords, MinWords + 1}, d \in {-1, 0, 1}}
    \cup {DotsOnly(w, dots) : w \in {MinWords - 1, MinWords}, dots \in {<<".">>, <<".", ".">>}}

Corpora ==
    PlainCorpora \cup PhraseCorpora \cup NearMissCorpora \cup OneSentenceCorpora
    \cup SentenceCorpora

\* The texts sent while both handlers run against the store.
StoreCorpora ==
    {<<>>,
     Join(Words(MinWords - 1, MinWords), <<" ">>) \o <<".">>,
     Join(Words(MinWords, MinWords), <<" ">>) \o <<".">>,
     Join(MixedCaseWords(MinWords, 7), <<" ">>) \o <<" ">> \o Upper(However)
         \o <<" ">> \o InAddition}

\* The tone level sent while both handlers run against the store.
StoreToneLevels == {7}

\* The stores analyze_corpus can have left: any users, each with the model
\* of one of the texts above.
Stores ==
    UNION {[S -> {ASM(t) : t \in {c \in StoreCorpora : ~TooShort(c)}}] : S \in SUBSET Users}

---------------------------------------------------------------------------
(* The state machine *)

Init ==
    /\ FAKE_USER_DATABASE = [k \in {} |-> NoPrompt]
    /\ request = NoRequest
    /\ response = NoResponse
    /\ system_prompt = NoPrompt
    /\ analyzed = {}
    /\ rejected = {}

Analyze == \E user_id \in Users, corpus_text \in StoreCorpora :
               analyze_corpus(user_id, corpus_text)

Generate == \E user_id \in Users, prompt \in Prompts, tone_level \in StoreToneLevels :
                generate_with_twin(user_id, prompt, tone_level)

Next == Analyze \/ Generate

Spec == Init /\ [][Next]_vars

\* analyze_corpus alone, applied to one request drawn from all the texts.
InitAnalyze ==
    /\ FAKE_USER_DATABASE = [k \in {} |-> NoPrompt]
    /\ request \in {[op |-> "analyze", user_id |-> u, corpus_text |-> t] :
                       u \in {"u1"}, t \in Corpora}
    /\ response = NoResponse
    /\ system_prompt = NoPrompt
    /\ analyzed = {}
    /\ rejected = {}

ServeAnalyze ==
    /\ response = NoResponse
    /\ analyze_corpus(request.user_id, request.corpus_text)

NextAnalyze == ServeAnalyze

SpecAnalyze == InitAnalyze /\ [][NextAnalyze]_vars

\* generate_with_twin alone, applied to one request against one store.
InitGenerate ==
    /\ FAKE_USER_DATABASE \in Stores
    /\ request \in {[op |-> "generate", user_id |-> u, prompt |-> p, tone_level |-> l] :
                       u \in Users, p \in Prompts, l \in ToneLevels}
    /\ response = NoResponse
    /\ system_prompt = NoPrompt
    /\ analyzed = DOMAIN FAKE_USER_DATABASE
    /\ rejected = {}

ServeGenerate ==
    /\ response = NoResponse
    /\ generate_with_twin(request.user_id, request.prompt, request.tone_level)

NextGenerate == ServeGenerate

SpecGenerate == InitGenerate /\ [][NextGenerate]_vars

---------------------------------------------------------------------------
(* Properties *)

\* The request has been served.
Served == response # NoResponse

AnalyzeServed == request.op = "analyze" /\ Served

AnalyzeSucceeded == AnalyzeServed /\ response.status_code = 200

GenerateServed == request.op = "generate" /\ Served

\* The number of whitespace-delimited tokens: the positions where one begins.
WordCount(t) ==
    Cardinality({i \in 1..Len(t) : ~IsSpace(t[i]) /\ (i = 1 \/ IsSpace(t[i-1]))})

\* The character c, read without regard to case, is the lower-case letter l.
SameIgnoringCase(c, l) ==
    c = l \/ \E i \in 1..26 : AsciiUpper[i] = c /\ AsciiLower[i] = l

\* The lower-case phrase p occurs in t when case is ignored.
OccursIgnoringCase(p, t) ==
    \E i \in 1..(Len(t) - Len(p) + 1) :
        \A k \in 1..Len(p) : SameIgnoringCase(t[i + k - 1], p[k])

MarkerPhrases == {However, InAddition, ForExample, ItIsClearThat, OnTheOtherHand}

\* The elements of the sequence s follow the order of the list.
InOrderOf(s, list) ==
    \A i, j \in 1..Len(s) :
        i < j => \E a, b \in 1..Len(list) : a < b /\ list[a] = s[i] /\ list[b] = s[j]

\* C1: generate_with_twin for a user id answers 404 whenever no analyze_corpus
\* for that id has succeeded so far, whatever was rejected for that id and
\* whatever succeeded for other ids.
C1_GenerateBeforeAnalyzeIs404 ==
    (GenerateServed /\ request.user_id \notin analyzed) => response.status_code = 404

\* C1 witness: a 404 for a user whose analysis was rejected earlier, while
\* another user's analysis has succeeded.
C1_Witness ==
    /\ GenerateServed
    /\ request.user_id \notin analyzed
    /\ request.user_id \in rejected
    /\ analyzed # {}
    /\ response.status_code = 404

\* C2: analyze_corpus answers 400 exactly for the texts of fewer than 50
\* whitespace-delimited tokens.
C2_ShortIff400 ==
    AnalyzeServed =>
        (response.status_code = 400 <=> WordCount(request.corpus_text) < 50)

\* C2 witness: a text of exactly 49 tokens is rejected.
C2_Witness ==
    /\ AnalyzeServed
    /\ WordCount(request.corpus_text) = 49
    /\ response.status_code = 400

\* C3 as stated: every successful analysis returns a rounded
\* avg_sentence_length strictly greater than 0.
C3_AvgAlwaysPositive ==
    AnalyzeSucceeded => response.body.avg_sentence_length > 0

\* C3 amended: the returned avg_sentence_length is never negative, and it is
\* greater than 0 exactly when the text has at most 200 non-blank
\* '.'-fragments per token; with more, the quotient is below 0.005 and is
\* returned as 0.0.
C3_AvgPositiveUpTo200PerWord ==
    AnalyzeSucceeded =>
        LET S == Cardinality(Sentences(request.corpus_text))
            W == WordCount(request.corpus_text)
        IN  /\ response.body.avg_sentence_length >= 0
            /\ response.body.avg_sentence_length > 0 <=> S <= 200 * W

\* C3 witness: 50 tokens, the first holding 10000 dots, are returned with an
\* average of 0.0.
C3_Witness ==
    /\ AnalyzeSucceeded
    /\ WordCount(request.corpus_text) = 50
    /\ response.body.avg_sentence_length = 0

\* C4: a successful generation returns a score in 85..98, labelled
\* "Undetectable" exactly from 90 up and "Likely Human" exactly up to 89.
C4_ScoreAndLabel ==
    (GenerateServed /\ response.status_code = 200) =>
        LET score == response.aegis_rating.score
            label == response.aegis_rating.label
        IN  /\ score \in 85..98
            /\ label \in {"Undetectable", "Likely Human"}
            /\ label = "Undetectable" <=> score >= 90
            /\ label = "Likely Human" <=> score <= 89

\* C4 witness: the score 89, the highest labelled "Likely Human".
C4_Witness ==
    /\ GenerateServed
    /\ response.status_code = 200
    /\ response.aegis_rating.score = 89
    /\ response.aegis_rating.label = "Likely Human"

\* A served request and what it left in the store, for the step that served it.
AnalyzeStored ==
    /\ request'.op = "analyze"
    /\ response'.status_code = 200

StoreStep ==
    IF AnalyzeStored
    THEN /\ DOMAIN FAKE_USER_DATABASE' = DOMAIN FAKE_USER_DATABASE \cup {request'.user_id}
         /\ FAKE_USER_DATABASE'[request'.user_id] = response'.body
         /\ \A u \in DOMAIN FAKE_USER_DATABASE \ {request'.user_id} :
                FAKE_USER_DATABASE'[u] = FAKE_USER_DATABASE[u]
    ELSE FAKE_USER_DATABASE' = FAKE_USER_DATABASE

\* C5: the store holds an entry for exactly the user ids whose analysis has
\* succeeded; a successful analysis sets its user's entry to the model it
\* returns and leaves the others; a rejected analysis and any generation
\* leave the store as it was; no entry is removed.
C5_StoreIsLastSuccessfulAnalysis ==
    /\ [](DOMAIN FAKE_USER_DATABASE = analyzed)
    /\ [][StoreStep]_vars

\* C5 witness: both users hold different models and the request just served
\* was a rejected analysis for one of them.
C5_Witness ==
    /\ DOMAIN FAKE_USER_DATABASE = Users
    /\ FAKE_USER_DATABASE["u1"] # FAKE_USER_DATABASE["u2"]
    /\ AnalyzeServed
    /\ response.status_code = 400
    /\ request.user_id \in rejected

\* C6: common_phrases holds exactly the marker phrases that occur in the text
\* when case is ignored, each once.
C6_PhrasesFoundIffPresent ==
    AnalyzeSucceeded =>
        LET found == response.body.common_phrases
        IN  /\ ToSet(found) =
                   {p \in MarkerPhrases : OccursIgnoringCase(p, request.corpus_text)}
            /\ Cardinality(ToSet(found)) = Len(found)

\* C6 witness: "HOWEVER," written in upper case and "it is clear that",
\* which spans four tokens, are both found.
C6_Witness ==
    /\ AnalyzeSucceeded
    /\ Contains(request.corpus_text, Upper(However))
    /\ However \in ToSet(response.body.common_phrases)
    /\ ItIsClearThat \in ToSet(response.body.common_phrases)

\* C7: for a user with a stored model, generation succeeds for every tone
\* level and renders the table's phrase for 0..5 and "professional" for any
\* other level.
C7_ToneDefaultsToProfessional ==
    (GenerateServed /\ request.user_id \in DOMAIN FAKE_USER_DATABASE) =>
        /\ response.status_code = 200
        /\ system_prompt.tone =
               IF request.tone_level \in 0..5 THEN tone_map[request.tone_level]
               ELSE "professional"

\* C7 witness: tone level 7 is rendered as "professional".
C7_Witness ==
    /\ GenerateServed
    /\ request.tone_level = 7
    /\ response.status_code = 200
    /\ system_prompt.tone = "professional"

\* Exactly 50 pairwise distinct words and a single '.', the last character.
FiftyDistinctWordsOneDot(t) ==
    /\ WordCount(t) = 50
    /\ Cardinality(ToSet(Split(t))) = 50
    /\ Len(t) > 0 /\ t[Len(t)] = "."
    /\ \A i \in 1..(Len(t) - 1) : t[i] # "."

FiftyOneSentenceResult ==
    /\ response.status_code = 200
    /\ response.body.avg_sentence_length = 5000
    /\ response.body.lexical_diversity = 100
    /\ response.body.common_phrases = <<>>

\* C8 as stated: 50 pairwise distinct words with a single final '.' give
\* avg_sentence_length 50.0, lexical_diversity 1.0 and no common phrases.
C8_FiftyDistinctWords ==
    (AnalyzeServed /\ FiftyDistinctWordsOneDot(request.corpus_text)) =>
        FiftyOneSentenceResult

\* C8 amended: the same, for words that stay pairwise distinct when
\* lower-cased and a text in which no marker phrase occurs.
C8_FiftyDistinctLowerCasedWords ==
    (/\ AnalyzeServed
     /\ FiftyDistinctWordsOneDot(request.corpus_text)
     /\ Cardinality({Lower(w) : w \in ToSet(Split(request.corpus_text))}) = 50
     /\ \A p \in MarkerPhrases : ~OccursIgnoringCase(p, request.corpus_text))
        => FiftyOneSentenceResult

\* C8 witness: such a text has been analysed.
C8_Witness ==
    /\ AnalyzeServed
    /\ FiftyDistinctWordsOneDot(request.corpus_text)
    /\ Cardinality({Lower(w) : w \in ToSet(Split(request.corpus_text))}) = 50
    /\ FiftyOneSentenceResult

\* C9: lexical_diversity is (distinct lower-cased tokens) / (tokens) rounded
\* to the nearest hundredth, within [0, 1], and the text has tokens, so the
\* 0.5 fallback is not what is returned.
C9_DiversityIsRoundedRatio ==
    AnalyzeSucceeded =>
        LET tokens == Split(request.corpus_text)
            n == WordCount(request.corpus_text)
            k == Cardinality({Lower(w) : w \in ToSet(tokens)})
            d == response.body.lexical_diversity
        IN  /\ n > 0
            /\ 2 * (d * n - 100 * k) <= n
            /\ 2 * (100 * k - d * n) <= n
            /\ 0 <= d /\ d <= 100

\* C9 witness: 56 tokens in both cases over 7 words: 0.125, returned as 0.12.
C9_Witness ==
    /\ AnalyzeSucceeded
    /\ WordCount(request.corpus_text) = 56
    /\ request.corpus_text # Lower(request.corpus_text)
    /\ response.body.lexical_diversity = 12

\* C10 as stated: common_phrases follows the order "however," "in addition,"
\* "for example," "it is clear that" "on the other hand,".
C10_OrderAsListedInProse ==
    AnalyzeSucceeded => InOrderOf(response.body.common_phrases, ListedPhrases)

\* C10 amended: common_phrases follows the order "in addition," "however,"
\* "for example," "it is clear that" "on the other hand,".
C10_OrderInAdditionFirst ==
    AnalyzeSucceeded =>
        InOrderOf(response.body.common_phrases,
                  <<InAddition, However, ForExample, ItIsClearThat, OnTheOtherHand>>)

\* C10 witness: a text with both phrases is returned "in addition," first.
C10_Witness ==
    /\ AnalyzeSucceeded
    /\ Len(response.body.common_phrases) >= 2
    /\ response.body.common_phrases[1] = InAddition
    /\ response.body.common_phrases[2] = However

====
